---- MODULE Spec2Model ----
(***************************************************************************)
(* A model of the confidential-computing container launcher:               *)
(*   launcher/container_runner.go  (NewRunner, measureContainerClaims,     *)
(*   refreshToken, fetchAndWriteTokenWithRetry, Run, Close) and the pure   *)
(*   function getNextRefreshFromExpiration.                                *)
(*                                                                         *)
(* Strings are sequences of chunks (<<"FOO", "=", "bar">> is "FOO=bar"),   *)
(* so that formatting and splitting at "=" are computed.  Time is a        *)
(* counter of nanosecond ticks.  float64 values are sign, mantissa and     *)
(* binary exponent with IEEE-754 round-to-nearest-even at 53 bits; the     *)
(* mantissa is a little-endian sequence of limbs because a product of two  *)
(* mantissas needs 106 bits.                                               *)
(***************************************************************************)
EXTENDS Integers, Sequences, FiniteSets, TLC

\* ------------------------------------------------------------------ bounds
\* Run invocations on one runner.
MaxRuns == 2
\* The clock runs from 0 to MaxTime ticks.
MaxTime == 1
\* Remaining lifetimes given to getNextRefreshFromExpiration: 1..MaxL
\* nanoseconds, and the MaxOffset + 1 lifetimes from each of LargeLifetimes on.
MaxL == 1000
MaxOffset == 15

\* Close is called at most this many times.
MaxCloses == 2

\* ------------------------------------------------ natural numbers as limbs
LimbBits == 7 + 7
LimbBase == 2 ^ LimbBits

Limb(a, i) == IF i <= Len(a) THEN a[i] ELSE 0

RECURSIVE BNorm(_)
BNorm(a) == IF a = <<>> THEN <<>>
            ELSE IF a[Len(a)] = 0 THEN BNorm(SubSeq(a, 1, Len(a) - 1)) ELSE a

RECURSIVE FromNat(_)
FromNat(n) == IF n = 0 THEN <<>> ELSE <<n % LimbBase>> \o FromNat(n \div LimbBase)

RECURSIVE ToNat(_)
ToNat(a) == IF a = <<>> THEN 0 ELSE a[1] + LimbBase * ToNat(Tail(a))

RECURSIVE AddFrom(_, _, _, _)
AddFrom(a, b, i, c) ==
    IF i > Len(a) /\ i > Len(b)
    THEN IF c = 0 THEN <<>> ELSE <<c>>
    ELSE LET s == Limb(a, i) + Limb(b, i) + c
         IN <<s % LimbBase>> \o AddFrom(a, b, i + 1, s \div LimbBase)

BAdd(a, b) == AddFrom(a, b, 1, 0)

RECURSIVE SubFrom(_, _, _, _)
SubFrom(a, b, i, c) ==
    IF i > Len(a) THEN <<>>
    ELSE LET d == Limb(a, i) - Limb(b, i) - c
         IN IF d < 0 THEN <<d + LimbBase>> \o SubFrom(a, b, i + 1, 1)
                     ELSE <<d>> \o SubFrom(a, b, i + 1, 0)

\* a - b for a >= b
BSub(a, b) == BNorm(SubFrom(a, b, 1, 0))

RECURSIVE MulSmallFrom(_, _, _, _)
MulSmallFrom(a, k, i, c) ==
    IF i > Len(a) THEN IF c = 0 THEN <<>> ELSE <<c>>
    ELSE LET p == a[i] * k + c
         IN <<p % LimbBase>> \o MulSmallFrom(a, k, i + 1, p \div LimbBase)

\* a * k for 0 <= k < LimbBase
BMulSmall(a, k) == BNorm(MulSmallFrom(a, k, 1, 0))

BShlLimbs(a, q) == IF a = <<>> THEN <<>> ELSE [i \in 1..q |-> 0] \o a

RECURSIVE MulFrom(_, _, _)
MulFrom(a, b, j) ==
    IF j > Len(b) THEN <<>>
    ELSE BAdd(BShlLimbs(BMulSmall(a, b[j]), j - 1), MulFrom(a, b, j + 1))

BMul(a, b) == MulFrom(a, b, 1)

\* a * 2^s
BShl(a, s) == BShlLimbs(BMulSmall(a, 2 ^ (s % LimbBits)), s \div LimbBits)

BDrop(a, q) == IF q >= Len(a) THEN <<>> ELSE SubSeq(a, q + 1, Len(a))

\* a \div 2^s
BShr(a, s) ==
    IF s % LimbBits = 0 THEN BDrop(a, s \div LimbBits)
    ELSE BDrop(BMulSmall(a, 2 ^ (LimbBits - (s % LimbBits))), (s \div LimbBits) + 1)

RECURSIVE CmpFrom(_, _, _)
CmpFrom(a, b, i) ==
    IF i = 0 THEN 0
    ELSE IF a[i] > b[i] THEN 1 ELSE IF a[i] < b[i] THEN -1 ELSE CmpFrom(a, b, i - 1)

BCmp(a, b) == IF Len(a) > Len(b) THEN 1 ELSE IF Len(a) < Len(b) THEN -1
              ELSE CmpFrom(a, b, Len(a))

RECURSIVE NatBits(_)
NatBits(n) == IF n = 0 THEN 0 ELSE 1 + NatBits(n \div 2)

BitLen(a) == IF a = <<>> THEN 0 ELSE LimbBits * (Len(a) - 1) + NatBits(a[Len(a)])

BIsOdd(a) == a # <<>> /\ a[1] % 2 = 1

\* The number written by the hexadecimal digits ds, most significant first.
RECURSIVE FromHex(_)
FromHex(ds) ==
    IF ds = <<>> THEN <<>>
    ELSE BAdd(BMulSmall(FromHex(SubSeq(ds, 1, Len(ds) - 1)), 16), FromNat(ds[Len(ds)]))

\* ---------------------------------------------------------------- float64
\* [s, m, e] is s * m * 2^e with m below 2^53.
MantissaBits == 52 + 1

\* The float64 nearest to sgn * n * 2^e, ties to even.
Round64(sgn, n, e) ==
    LET len == BitLen(n) IN
    IF len <= MantissaBits THEN [s |-> sgn, m |-> n, e |-> e]
    ELSE LET sh   == len - MantissaBits
             q    == BShr(n, sh)
             rem  == BSub(n, BShl(q, sh))
             half == BShl(<<1>>, sh - 1)
             c    == BCmp(rem, half)
             up   == c > 0 \/ (c = 0 /\ BIsOdd(q))
         IN [s |-> sgn, m |-> IF up THEN BAdd(q, <<1>>) ELSE q, e |-> e + sh]

FMul(x, y) == Round64(x.s * y.s, BMul(x.m, y.m), x.e + y.e)

FAdd(x, y) ==
    LET e == IF x.e < y.e THEN x.e ELSE y.e
        a == BShl(x.m, x.e - e)
        b == BShl(y.m, y.e - e)
    IN IF x.s = y.s THEN Round64(x.s, BAdd(a, b), e)
       ELSE IF BCmp(a, b) >= 0 THEN Round64(x.s, BSub(a, b), e)
       ELSE Round64(y.s, BSub(b, a), e)

FNeg(x) == [x EXCEPT !.s = -x.s]

FSub(x, y) == FAdd(x, FNeg(y))

\* float64(n) for an integer n
Float64FromInt(n) ==
    IF n < 0 THEN Round64(-1, FromNat(-n), 0) ELSE Round64(1, FromNat(n), 0)

\* Magnitudes of durations in nanoseconds.
Nanosecond == <<1>>
Second == FromNat(10 ^ 9)
Minute == BMulSmall(Second, 60)
Hour == BMulSmall(Minute, 60)

\* A time.Duration is an int64 count of nanoseconds, here its sign and its
\* magnitude in limbs: the duration of n nanoseconds.
DurationOf(n) ==
    IF n < 0 THEN [s |-> -1, n |-> FromNat(-n)] ELSE [s |-> 1, n |-> FromNat(n)]

\* float64(d) for a time.Duration d
Float64FromInt64(d) == Round64(d.s, d.n, 0)

\* time.Duration(x): the conversion truncates toward zero
IntFromFloat64(x) ==
    LET n == BNorm(IF x.e >= 0 THEN BShl(x.m, x.e) ELSE BShr(x.m, -x.e))
    IN [s |-> IF n = <<>> THEN 1 ELSE x.s, n |-> n]

\* k / 2^sh, exact
Dyadic(k, sh) == Round64(1, FromNat(k), -sh)

\* 0.8 as a float64: 0x1.999999999999Ap-1
defaultRefreshMultiplier ==
    [s |-> 1, m |-> FromHex(<<1, 9, 9, 9, 9, 9, 9, 9, 9, 9, 9, 9, 9, 10>>), e |-> -53]

\* 0.1 as a float64: 0x1.999999999999Ap-4
defaultRefreshJitter ==
    [s |-> 1, m |-> FromHex(<<1, 9, 9, 9, 9, 9, 9, 9, 9, 9, 9, 9, 9, 10>>), e |-> -56]

\* A wrong variant: the jitter is added to the centre instead of subtracted.
getNextRefreshFromExpiration_JitterAdded(expiration, random) ==
    LET diff     == FMul(defaultRefreshJitter, Float64FromInt64(expiration))
        center   == FMul(defaultRefreshMultiplier, Float64FromInt64(expiration))
        minRange == FAdd(center, diff)
    IN IntFromFloat64(FAdd(minRange, FMul(FMul(random, Float64FromInt(2)), diff)))

getNextRefreshFromExpiration(expiration, random) ==
    LET diff     == FMul(defaultRefreshJitter, Float64FromInt64(expiration))
        center   == FMul(defaultRefreshMultiplier, Float64FromInt64(expiration))
        minRange == FSub(center, diff)
    IN IntFromFloat64(FAdd(minRange, FMul(FMul(random, Float64FromInt(2)), diff)))

\* rand.Float64() draws from [0, 1): the two ends of the range and points between.
RandMax == [s |-> 1, m |-> BSub(BShl(<<1>>, MantissaBits), <<1>>), e |-> -MantissaBits]

Rands == {Dyadic(0, 0), Dyadic(1, 2), Dyadic(1, 1), RandMax}

\* getNextRefreshFromExpiration on the lifetimes a token can have left on the
\* clock of the model, computed once.
NextRefresh ==
    [L \in (0 - MaxTime)..MaxTime |->
        [r \in Rands |-> LET d == getNextRefreshFromExpiration(DurationOf(L), r)
                         IN d.s * ToNat(d.n)]]

\* ---------------------------------------------------------------- strings
Contains(str, c) == \E i \in 1..Len(str) : str[i] = c

\* The part of an "NAME=VALUE" entry before its first "=".
RECURSIVE EnvName(_)
EnvName(entry) ==
    IF entry = <<>> \/ Head(entry) = "=" THEN <<>>
    ELSE <<Head(entry)>> \o EnvName(Tail(entry))

\* cel.FormatEnvVar: the name must be non-empty and hold no "=".
FormatEnvVar(name, value) ==
    [err |-> name = <<>> \/ Contains(name, "="), str |-> name \o <<"=">> \o value]

RECURSIVE formatEnvVars(_)
formatEnvVars(envVars) ==
    IF envVars = <<>> THEN [err |-> FALSE, result |-> <<>>]
    ELSE LET f    == FormatEnvVar(Head(envVars).Name, Head(envVars).Value)
             rest == formatEnvVars(Tail(envVars))
         IN IF f.err \/ rest.err THEN [err |-> TRUE, result |-> <<>>]
            ELSE [err |-> FALSE, result |-> <<f.str>> \o rest.result]

\* ----------------------------------------------------------------- inputs
\* The operator's LaunchSpec: no override; Cmd and Env overrides; an Env
\* override whose name holds "=".
LaunchSpecs ==
    { [ImageRef |-> <<"gcr.io/x/app">>, Cmd |-> <<>>, Envs |-> <<>>,
       RestartPolicy |-> <<"never">>],
      [ImageRef |-> <<"gcr.io/x/app">>, Cmd |-> << <<"./run">>, <<"--flag">> >>,
       Envs |-> << [Name |-> <<"FOO">>, Value |-> <<"bar">>] >>,
       RestartPolicy |-> <<"always">>],
      [ImageRef |-> <<"gcr.io/x/app">>, Cmd |-> <<>>,
       Envs |-> << [Name |-> <<"A", "=", "B">>, Value |-> <<"x">>] >>,
       RestartPolicy |-> <<"never">>] }

\* The pulled image: its config (Entrypoint, Cmd, Env) and its labels.  The
\* first allows the overrides, the second has no Entrypoint, the labels of the
\* third do not parse, those of the fourth allow no Env override.
Images ==
    { [Digest |-> <<"sha256:abc">>, ConfigDigest |-> <<"sha256:cfg1">>,
       Entrypoint |-> << <<"/app">> >>, Cmd |-> << <<"serve">> >>,
       Env |-> << <<"PATH", "=", "/bin">> >>,
       Labels |-> [cmdOverride |-> "true", envOverride |-> { <<"FOO">> }]],
      [Digest |-> <<"sha256:def">>, ConfigDigest |-> <<"sha256:cfg2">>,
       Entrypoint |-> <<>>, Cmd |-> <<>>,
       Env |-> <<>>,
       Labels |-> [cmdOverride |-> "true", envOverride |-> { <<"FOO">> }]],
      [Digest |-> <<"sha256:123">>, ConfigDigest |-> <<"sha256:cfg3">>,
       Entrypoint |-> <<>>, Cmd |-> <<>>,
       Env |-> <<>>,
       Labels |-> [cmdOverride |-> "bogus", envOverride |-> {}]],
      [Digest |-> <<"sha256:456">>, ConfigDigest |-> <<"sha256:cfg4">>,
       Entrypoint |-> <<>>, Cmd |-> <<>>,
       Env |-> <<>>,
       Labels |-> [cmdOverride |-> "true", envOverride |-> {}]] }

\* What the environment answers during one NewRunner call.
NewRunnerInputs ==
    [pullOK : BOOLEAN, loadOK : BOOLEAN, deleteOK : BOOLEAN, cleanupOK : BOOLEAN,
     config : {"ok", "unreadable", "badmedia"},
     hostnameOK : BOOLEAN, create : {"ok", "fail", "fail_partial"}, specOK : BOOLEAN,
     restOK : BOOLEAN]

Hostname == <<"vm-1">>

\* ------------------------------------------------------------ launch policy
NilLabels == [cmdOverride |-> "", envOverride |-> {}]

\* getImageLabels: the labels of a readable config of a known media type.
getImageLabels(img, config) ==
    IF config = "ok" THEN [err |-> FALSE, labels |-> img.Labels]
    ELSE [err |-> TRUE, labels |-> NilLabels]

\* spec.GetLaunchPolicy: missing keys deny the overrides.
GetLaunchPolicy(labels) ==
    [err |-> labels.cmdOverride \notin {"", "true", "false"},
     AllowCmdOverride |-> labels.cmdOverride = "true",
     AllowedEnvOverride |-> labels.envOverride]

\* launchPolicy.Verify: TRUE when the overrides violate the policy.
Verify(policy, ls) ==
    \/ (ls.Cmd # <<>> /\ ~policy.AllowCmdOverride)
    \/ \E i \in 1..Len(ls.Envs) : ls.Envs[i].Name \notin policy.AllowedEnvOverride

\* A wrong variant: the verdict of Verify is dropped.
PolicyCheck_VerifyIgnored(labels, ls) ==
    IF GetLaunchPolicy(labels).err THEN "policy_parse" ELSE "ok"

\* NewRunner, the policy step: derive the policy, verify the overrides.
PolicyCheck(labels, ls) ==
    IF GetLaunchPolicy(labels).err THEN "policy_parse"
    ELSE IF Verify(GetLaunchPolicy(labels), ls) THEN "policy_violation"
    ELSE "ok"

\* ------------------------------------------------------------ container spec
DefaultUnixEnv == << <<"PATH", "=", "/usr/bin">> >>

RECURSIVE ReplaceEnv(_, _)
ReplaceEnv(env, value) ==
    IF env = <<>> THEN <<>>
    ELSE <<IF EnvName(Head(env)) = EnvName(value) THEN value ELSE Head(env)>>
         \o ReplaceEnv(Tail(env), value)

\* oci.WithEnv: an override replaces the entry of its name, or is appended.
RECURSIVE replaceOrAppendEnvValues(_, _)
replaceOrAppendEnvValues(defaults, overrides) ==
    IF overrides = <<>> THEN defaults
    ELSE LET v == Head(overrides)
             known == \E i \in 1..Len(defaults) : EnvName(defaults[i]) = EnvName(v)
         IN replaceOrAppendEnvValues(
                IF known THEN ReplaceEnv(defaults, v) ELSE Append(defaults, v),
                Tail(overrides))

\* The OCI spec NewContainer generates: Args = Entrypoint + Cmd, and the
\* environment of the image, the operator's overrides and HOSTNAME.
ContainerSpecOf(img, ls) ==
    [Args |-> img.Entrypoint \o (IF ls.Cmd # <<>> THEN ls.Cmd ELSE img.Cmd),
     Env  |-> replaceOrAppendEnvValues(
                  replaceOrAppendEnvValues(
                      IF img.Env = <<>> THEN DefaultUnixEnv ELSE img.Env,
                      formatEnvVars(ls.Envs).result),
                  << <<"HOSTNAME", "=">> \o Hostname >>)]

\* --------------------------------------------------------------- NewRunner
\* NewRunner returns an error; exists tells whether a container with the
\* reserved id is left behind.
NewRunnerFailed(kind, retryable, calls, exists) ==
    [status |-> "failed", err |-> kind, retryable |-> retryable, calls |-> calls,
     container |-> exists]

\* The labels NewRunner derives the policy from, read back from its calls.
LabelsRead(img, calls) ==
    IF \E i \in 1..Len(calls) : calls[i] = "getImageLabels failed"
    THEN getImageLabels(img, "unreadable").labels
    ELSE getImageLabels(img, "ok").labels

\* NewRunner, LoadContainer: only when LoadContainer returns no error (loadOK,
\* and a container is there to load) is the container it returned deleted, the
\* result of the delete dropped.  An error of LoadContainer, not found or any
\* other, is passed over and nothing is deleted.  exists tells whether a
\* container with the reserved id is there afterwards.
LoadExisting(exists, loadOK, deleteOK) ==
    IF ~(exists /\ loadOK) THEN [calls |-> <<"LoadContainer">>, exists |-> exists]
    ELSE IF deleteOK THEN [calls |-> <<"LoadContainer", "Delete">>, exists |-> FALSE]
    ELSE [calls |-> <<"LoadContainer", "Delete failed">>, exists |-> TRUE]

\* NewRunner as a function of its arguments, of whether a container with the
\* reserved id exists, and of the environment's answers: the error (or none),
\* its calls on the container id and on the image labels in order, and whether
\* a container with the reserved id exists on return.  containerd creates no
\* container under an id that is taken.  When NewContainer returns a container
\* with its error the container is deleted, the result of the delete dropped:
\* a delete that fails (cleanupOK false) leaves the container.
NewRunnerOutcome(ls, img, exists, in) ==
    LET read   == getImageLabels(img, in.config)
        old    == LoadExisting(exists, in.loadOK, in.deleteOK)
        loaded == old.calls
                  \o (IF read.err THEN <<"getImageLabels failed">> ELSE <<"getImageLabels">>)
        policy == PolicyCheck(read.labels, ls)
        made   == loaded \o <<"NewContainer">>
    IN  IF ~in.pullOK THEN NewRunnerFailed("pull", FALSE, <<>>, exists)
        ELSE IF formatEnvVars(ls.Envs).err
            THEN NewRunnerFailed("format", FALSE, <<>>, exists)
        ELSE IF policy # "ok" THEN NewRunnerFailed(policy, FALSE, loaded, old.exists)
        ELSE IF ~in.hostnameOK
            THEN NewRunnerFailed("hostname", TRUE, loaded, old.exists)
        ELSE IF old.exists THEN NewRunnerFailed("create", TRUE, made, TRUE)
        ELSE IF in.create = "fail" THEN NewRunnerFailed("create", TRUE, made, FALSE)
        ELSE IF in.create = "fail_partial"
            THEN IF in.cleanupOK
                 THEN NewRunnerFailed("create", TRUE, made \o <<"Delete">>, FALSE)
                 ELSE NewRunnerFailed("create", TRUE, made \o <<"Delete failed">>, TRUE)
        ELSE IF ~in.specOK
            THEN NewRunnerFailed("spec", TRUE, made \o <<"Spec">>, TRUE)
        ELSE IF Len(ContainerSpecOf(img, ls).Args) <= Len(ls.Cmd)
            THEN NewRunnerFailed("entrypoint", FALSE, made \o <<"Spec">>, TRUE)
        ELSE IF ~in.restOK
            THEN NewRunnerFailed("rest", FALSE, made \o <<"Spec">>, TRUE)
        ELSE [status |-> "ok", err |-> "none", retryable |-> FALSE,
              calls |-> made \o <<"Spec">>, container |-> TRUE]

\* ------------------------------------------------------------- measurement
Event(type, content) == [type |-> type, content |-> content]

RECURSIVE Events(_, _)
Events(type, contents) ==
    IF contents = <<>> THEN <<>>
    ELSE <<Event(type, Head(contents))>> \o Events(type, Tail(contents))

\* What the environment answers during one measureContainerClaims call; without
\* the image the config and the spec are not asked for.
MeasureInputs ==
    {in \in [imageOK : BOOLEAN, cfgOK : BOOLEAN, specOK : BOOLEAN] :
        ~in.imageOK => (in.cfgOK /\ in.specOK)}

\* A wrong variant: the operator's Cmd is measured before the operator's Envs.
MeasureScript_OverridesSwapped(img, ls, in) ==
    [events |-> << Event("ImageRef", ls.ImageRef), Event("ImageDigest", img.Digest),
                   Event("RestartPolicy", ls.RestartPolicy) >>
                \o (IF in.cfgOK THEN <<Event("ImageID", img.ConfigDigest)>> ELSE <<>>)
                \o Events("Arg", ContainerSpecOf(img, ls).Args)
                \o Events("EnvVar", ContainerSpecOf(img, ls).Env)
                \o Events("OverrideArg", ls.Cmd)
                \o Events("OverrideEnv", formatEnvVars(ls.Envs).result)
                \o <<Event("LaunchSeparator", <<>>)>>,
     err |-> FALSE]

\* measureContainerClaims: the events it hands to MeasureEvent, in order, as long
\* as every MeasureEvent succeeds, and whether it then returns an error of its own
\* (image, spec or env formatting unavailable).
MeasureScript(img, ls, in) ==
    LET first == << Event("ImageRef", ls.ImageRef), Event("ImageDigest", img.Digest),
                    Event("RestartPolicy", ls.RestartPolicy) >>
                 \o (IF in.cfgOK THEN <<Event("ImageID", img.ConfigDigest)>> ELSE <<>>)
        spec  == first \o Events("Arg", ContainerSpecOf(img, ls).Args)
                       \o Events("EnvVar", ContainerSpecOf(img, ls).Env)
    IN  IF ~in.imageOK THEN [events |-> <<>>, err |-> TRUE]
        ELSE IF ~in.specOK THEN [events |-> first, err |-> TRUE]
        ELSE IF formatEnvVars(ls.Envs).err THEN [events |-> spec, err |-> TRUE]
        ELSE [events |-> spec \o Events("OverrideEnv", formatEnvVars(ls.Envs).result)
                              \o Events("OverrideArg", ls.Cmd)
                              \o <<Event("LaunchSeparator", <<>>)>>,
              err |-> FALSE]

\* ------------------------------------------------------------------ tokens
\* The bytes a verifier may return: not a JWT, a JWT without exp, a JWT with exp.
\* A token stands for every JWT with its registered claims, whatever its other
\* claims are.
Garbage == [ok |-> FALSE, hasExp |-> FALSE, exp |-> 0]
NoExpToken == [ok |-> TRUE, hasExp |-> FALSE, exp |-> 0]
ExpToken(e) == [ok |-> TRUE, hasExp |-> TRUE, exp |-> e]

VerifierTokens == {Garbage, NoExpToken, ExpToken(1)}

\* What Attest returns: an error, or the verifier's bytes.
AttestResults == {[err |-> TRUE, tok |-> Garbage]}
                 \cup {[err |-> FALSE, tok |-> t] : t \in VerifierTokens}

\* jwt ParseUnverified into RegisteredClaims: ExpiresAt is nil without exp.
ParseUnverified(tok) == [err |-> ~tok.ok, hasExpiresAt |-> tok.hasExp, ExpiresAt |-> tok.exp]

\* jwt ParseUnverified into MapClaims: every claim is decoded, so the parse of a
\* JWT that the registered claims accepted fails when another claim of it does
\* not decode (a number that fits no float64).  The errors it can return for
\* the JWTs a token stands for.
ParseMapClaims(tok) == IF ParseUnverified(tok).err THEN {TRUE} ELSE BOOLEAN

\* !now.Before(claims.ExpiresAt.Time)
TokenExpired(t, exp) == ~(t < exp)

\* ----------------------------------------------------------------- results
NoResult == [kind |-> "none", code |-> 0, cause |-> "none"]
ErrorResult(cause) == [kind |-> "error", code |-> 0, cause |-> cause]
RetryableResult(cause) == [kind |-> "retryable", code |-> 0, cause |-> cause]

ExitCodes == {0, 1, 42}

\* What the exit channel delivers: an exit code, or the error of the wait.
ExitStatuses == {[code |-> c, err |-> FALSE] : c \in ExitCodes}
                \cup {[code |-> 255, err |-> TRUE]}

\* A wrong variant: every nonzero exit is reported as exit code 1.
ExitResult_CodeLost(status) ==
    IF status.err THEN ErrorResult("status")
    ELSE IF status.code # 0 THEN [kind |-> "workload", code |-> 1, cause |-> "exit"]
    ELSE [kind |-> "nil", code |-> 0, cause |-> "exit"]

\* Run, after the exit status arrived: status.Result() and the exit code.
ExitResult(status) ==
    IF status.err THEN ErrorResult("status")
    ELSE IF status.code # 0 THEN [kind |-> "workload", code |-> status.code, cause |-> "exit"]
    ELSE [kind |-> "nil", code |-> 0, cause |-> "exit"]

\* defer: the call deferred last runs first.
PushDefer(deferred, call) == <<call>> \o deferred

\* A wrong variant: Run goes on to the task though the first refresh failed.
RunAfterFetch_ErrorIgnored(err) == "newtask"

\* Run, after fetchAndWriteToken: an error ends the Run.
RunAfterFetch(err) == IF err THEN "unwind" ELSE "newtask"

\* Run, after measureContainerClaims: an error ends the Run.
RunAfterMeasure(err) == IF err THEN "unwind" ELSE "fetch"

\* A wrong variant: a failed background refresh ends the Run with its error.
NotifyRefreshFailure_AbortsRun(runState, r, current) ==
    IF r = current /\ runState.pc \in {"newtask", "wait", "start", "recv"}
    THEN [runState EXCEPT !.pc = "unwind", !.result = ErrorResult("refresh")]
    ELSE runState

\* The notify callback of backoff.RetryNotify, called for refresher r while Run
\* number current is in runState: the failure is logged, Run is left alone.
NotifyRefreshFailure(runState, r, current) == runState

\* ------------------------------------------------------------------- state
VARIABLES
    launchSpec,     \* NewRunner's launchSpec argument
    image,          \* the image the reference resolves to
    hostContainer,  \* whether a container with the id tee-container exists
    nr,             \* NewRunner: pending, or its outcome
    calls,          \* the runtime calls of the operation in progress or last ended
    runNo,          \* the number of Run invocations so far
    run,            \* the current (or last) Run of the foreground activity
    cel,            \* the events MeasureEvent has appended in the current Run
    sealed,         \* whether an earlier Run has measured a LaunchSeparator
    task,           \* the task of the current Run
    rt,             \* refreshToken in progress, per caller (0 is Run itself)
    ref,            \* the refresher goroutine of each Run; timer is the delay left on
                    \* its timer, 0 once it has fired or is stopped
    cancelled,      \* whether the context of each Run is canceled
    tokenFile,      \* the token file
    now,            \* the clock
    crashed,        \* the process has panicked
    closed,         \* whether Close has been called
    fn              \* an application of getNextRefreshFromExpiration

vars == <<launchSpec, image, hostContainer, nr, calls, runNo, run, cel, sealed, task,
          rt, ref, cancelled, tokenFile, now, crashed, closed, fn>>

Callers == 0..MaxRuns
Refreshers == 1..MaxRuns

IdleRefresh == [pc |-> "idle", tok |-> Garbage, sampled |-> 0]
NoTask == [state |-> "none", status |-> [code |-> 0, err |-> FALSE]]
NoRefresher == [pc |-> "none", timer |-> 0]
\* The token file: absent, empty (just truncated), torn (part of a token, or
\* bytes of two tokens), or holding the whole of one token.  What is not a
\* whole token reads as bytes that do not parse.
NoFile == [exists |-> FALSE, bytes |-> "none", tok |-> Garbage]
EmptyFile == [exists |-> TRUE, bytes |-> "empty", tok |-> Garbage]
TornFile == [exists |-> TRUE, bytes |-> "torn", tok |-> Garbage]
WholeFile(tok) == [exists |-> TRUE, bytes |-> "whole", tok |-> tok]
NoFn == [L |-> 0, r |-> Dyadic(0, 0), d |-> 0, done |-> FALSE]

NoRun ==
    [pc |-> "idle", in |-> [imageOK |-> TRUE, cfgOK |-> TRUE, specOK |-> TRUE],
     mfail |-> FALSE, first |-> "none", deferred |-> <<>>, exitC |-> "unset",
     create |-> "none", start |-> "none", got |-> FALSE, result |-> NoResult,
     leaked |-> FALSE]

\* Nothing has been called yet.
Unstarted ==
    /\ nr = [status |-> "pending", err |-> "none", retryable |-> FALSE]
    /\ calls = <<>>
    /\ runNo = 0
    /\ run = NoRun
    /\ cel = <<>>
    /\ sealed = FALSE
    /\ task = NoTask
    /\ rt = [c \in Callers |-> IdleRefresh]
    /\ ref = [r \in Refreshers |-> NoRefresher]
    /\ cancelled = [r \in Refreshers |-> FALSE]
    /\ tokenFile = NoFile
    /\ now = 0
    /\ crashed = FALSE
    /\ closed = FALSE

\* The state before NewRunner, whatever the operator and the registry provide.
Init ==
    /\ launchSpec \in LaunchSpecs
    /\ image \in Images
    /\ hostContainer \in BOOLEAN
    /\ Unstarted
    /\ fn = NoFn

\* ---------------------------------------------------------------- NewRunner
NewRunner ==
    /\ nr.status = "pending"
    /\ \E in \in NewRunnerInputs :
         LET out == NewRunnerOutcome(launchSpec, image, hostContainer, in)
         IN /\ nr' = [status |-> out.status, err |-> out.err, retryable |-> out.retryable]
            /\ calls' = out.calls
            /\ hostContainer' = out.container
    /\ UNCHANGED <<launchSpec, image, runNo, run, cel, sealed, task, rt, ref, cancelled,
                   tokenFile, now, crashed, closed, fn>>

\* Close as a function of whether the container exists and of the runtime's
\* answer: the delete it asks for, whether the container exists afterwards, and
\* whether the process goes down.  Close has no result and drops the delete's.
CloseOutcome(exists, deleteOK) ==
    IF ~exists THEN [call |-> "Delete not found", container |-> FALSE, crashed |-> FALSE]
    ELSE IF deleteOK THEN [call |-> "Delete", container |-> FALSE, crashed |-> FALSE]
    ELSE [call |-> "Delete failed", container |-> TRUE, crashed |-> FALSE]

\* The runtime still holds a task of the container: that of this Run, or one
\* an earlier Run left behind.
TaskPresent == run.leaked \/ task.state \in {"created", "running", "exited"}

\* Close, before or after a Run, at most MaxCloses times.  From the first Close
\* on, calls holds the deletes asked for by Close.  The runtime deletes no
\* container that still has a task.
Close ==
    /\ nr.status = "ok" /\ ~crashed
    /\ run.pc \in {"idle", "returned"}
    /\ closed => Len(calls) < MaxCloses
    /\ \E out \in {CloseOutcome(hostContainer, deleteOK) :
                       deleteOK \in {b \in BOOLEAN : b => ~TaskPresent}} :
            /\ calls' = (IF closed THEN calls ELSE <<>>) \o <<out.call>>
            /\ hostContainer' = out.container
            /\ crashed' = out.crashed
    /\ closed' = TRUE
    /\ UNCHANGED <<launchSpec, image, nr, runNo, run, cel, sealed, task, rt, ref,
                   cancelled, tokenFile, now, fn>>

\* ---------------------------------------------------------------------- Run
\* Run begins: the child context and the deferred cancel, then
\* measureContainerClaims up to its first MeasureEvent.
RunBegin ==
    /\ nr.status = "ok" /\ ~crashed /\ ~closed
    /\ run.pc \in {"idle", "returned"}
    /\ runNo < MaxRuns
    /\ runNo' = runNo + 1
    /\ \E in \in MeasureInputs :
         LET sc == MeasureScript(image, launchSpec, in)
             r0 == [NoRun EXCEPT !.in = in, !.deferred = PushDefer(<<>>, "cancel"),
                                 !.leaked = TaskPresent]
         IN run' = IF sc.events = <<>>
                   THEN [r0 EXCEPT !.pc = RunAfterMeasure(TRUE),
                                   !.result = ErrorResult("measure")]
                   ELSE [r0 EXCEPT !.pc = "measure"]
    /\ calls' = <<>>
    /\ cel' = <<>>
    /\ sealed' = (sealed \/ \E i \in 1..Len(cel) : cel[i].type = "LaunchSeparator")
    /\ task' = NoTask
    /\ UNCHANGED <<launchSpec, image, hostContainer, nr, rt, ref, cancelled,
                   tokenFile, now, crashed, closed, fn>>

\* One MeasureEvent of measureContainerClaims: the agent appends the event to
\* the log, or fails; after the last event measureContainerClaims returns.
\* When container.Spec is going to fail, the last event is followed by the
\* call of container.Spec, in which Run waits.
MeasureStep ==
    /\ run.pc = "measure" /\ ~crashed
    /\ LET sc == MeasureScript(image, launchSpec, run.in)
       IN \E ok \in BOOLEAN :
            IF ok
            THEN /\ cel' = Append(cel, sc.events[Len(cel) + 1])
                 /\ run' = IF Len(cel) + 1 < Len(sc.events)
                           THEN run
                           ELSE IF ~run.in.specOK
                           THEN [run EXCEPT !.pc = "spec"]
                           ELSE IF sc.err
                           THEN [run EXCEPT !.pc = RunAfterMeasure(TRUE),
                                            !.result = ErrorResult("measure")]
                           ELSE [run EXCEPT !.pc = RunAfterMeasure(FALSE)]
            ELSE /\ cel' = cel
                 /\ run' = [run EXCEPT !.mfail = TRUE, !.pc = RunAfterMeasure(TRUE),
                                       !.result = ErrorResult("measure")]
    /\ UNCHANGED <<launchSpec, image, hostContainer, nr, calls, runNo, sealed, task, rt,
                   ref, cancelled, tokenFile, now, crashed, closed, fn>>

\* container.Spec returns its error to measureContainerClaims, which returns
\* it, and Run returns the measure error.
SpecFails ==
    /\ run.pc = "spec" /\ ~crashed
    /\ run' = [run EXCEPT !.pc = RunAfterMeasure(TRUE), !.result = ErrorResult("measure")]
    /\ UNCHANGED <<launchSpec, image, hostContainer, nr, calls, runNo, cel, sealed, task, rt,
                   ref, cancelled, tokenFile, now, crashed, closed, fn>>

\* fetchAndWriteTokenWithRetry begins: MkdirAll, then the first refreshToken.
FetchBegin ==
    /\ run.pc = "fetch" /\ ~crashed
    /\ \E mkdirOK \in BOOLEAN :
         IF mkdirOK
         THEN /\ run' = [run EXCEPT !.pc = "refresh"]
              /\ rt' = [rt EXCEPT ![0] = [IdleRefresh EXCEPT !.pc = "attest"]]
         ELSE /\ run' = [run EXCEPT !.first = "mkdir", !.pc = RunAfterFetch(TRUE),
                                    !.result = ErrorResult("fetch")]
              /\ rt' = rt
    /\ UNCHANGED <<launchSpec, image, hostContainer, nr, calls, runNo, cel, sealed, task,
                   ref, cancelled, tokenFile, now, crashed, closed, fn>>

\* The context a caller of refreshToken passes: that of its Run.
CtxOf(c) == IF c = 0 THEN runNo ELSE c

\* refreshToken returns an error.  To Run (caller 0) it is the error of
\* fetchAndWriteToken; in the goroutine RetryNotify notifies and backs off.
RefreshFailed(c, cause) ==
    /\ rt' = [rt EXCEPT ![c] = IdleRefresh]
    /\ IF c = 0
       THEN /\ run' = [run EXCEPT !.first = cause, !.pc = RunAfterFetch(TRUE),
                                  !.result = ErrorResult("fetch")]
            /\ ref' = ref
       ELSE /\ run' = NotifyRefreshFailure(run, c, runNo)
            /\ ref' = [ref EXCEPT ![c].pc = "backoff"]

\* refreshToken returns the delay d.  Run (caller 0) arms the timer and starts
\* the goroutine; the goroutine resets its timer.
RefreshSucceeded(c, d) ==
    /\ rt' = [rt EXCEPT ![c] = IdleRefresh]
    /\ IF c = 0
       THEN /\ run' = [run EXCEPT !.first = "ok", !.pc = RunAfterFetch(FALSE)]
            /\ ref' = [ref EXCEPT ![runNo] = [pc |-> "select", timer |-> d]]
       ELSE /\ run' = run
            /\ ref' = [ref EXCEPT ![c] = [pc |-> "select", timer |-> d]]

\* refreshToken, up to the expiry check: Attest answers (with an error once the
\* context is canceled), the token is parsed, the clock is read.  A token
\* without exp leaves ExpiresAt nil, and reading its Time panics.
RefreshAttest(c) ==
    /\ rt[c].pc = "attest" /\ ~crashed
    /\ \E a \in AttestResults :
         /\ cancelled[CtxOf(c)] => a.err
         /\ IF a.err
            THEN RefreshFailed(c, "attest") /\ crashed' = crashed
            ELSE IF ParseUnverified(a.tok).err
            THEN RefreshFailed(c, "parse") /\ crashed' = crashed
            ELSE IF ~ParseUnverified(a.tok).hasExpiresAt
            THEN crashed' = TRUE /\ UNCHANGED <<rt, run, ref>>
            ELSE IF TokenExpired(now, ParseUnverified(a.tok).ExpiresAt)
            THEN RefreshFailed(c, "expired") /\ crashed' = crashed
            ELSE /\ rt' = [rt EXCEPT ![c] = [pc |-> "write", tok |-> a.tok,
                                             sampled |-> now]]
                 /\ UNCHANGED <<run, ref, crashed>>
    /\ UNCHANGED <<launchSpec, image, hostContainer, nr, calls, runNo, cel, sealed, task,
                   cancelled, tokenFile, now, closed, fn>>

\* What a write of tok at offset 0 leaves in a file holding cur: the token
\* alone in an empty file; over bytes that another writer put there since the
\* file was truncated, the token alone when it is at least as long, and
\* otherwise the token followed by the end of those bytes.
Overwrite(cur, tok) ==
    IF cur.bytes = "empty" THEN {WholeFile(tok)} ELSE {WholeFile(tok), TornFile}

\* os.WriteFile after the open: the write and the close.  A failed write
\* leaves the file truncated or partly written, a failed close leaves it
\* written; os.WriteFile returns the error of either.
WriteAndClose(cur, tok) ==
    {[file |-> f, err |-> FALSE] : f \in Overwrite(cur, tok)}
    \cup {[file |-> f, err |-> TRUE] : f \in {cur, TornFile} \cup Overwrite(cur, tok)}

\* refreshToken, os.WriteFile of the token, the open: O_WRONLY|O_CREATE|O_TRUNC
\* empties the file, whoever else has it open.  A failed open leaves it alone.
RefreshOpen(c) ==
    /\ rt[c].pc = "write" /\ ~crashed
    /\ \E ok \in BOOLEAN :
         IF ok
         THEN /\ tokenFile' = EmptyFile
              /\ rt' = [rt EXCEPT ![c].pc = "opened"]
              /\ UNCHANGED <<run, ref>>
         ELSE /\ tokenFile' = tokenFile
              /\ RefreshFailed(c, "write")
    /\ UNCHANGED <<launchSpec, image, hostContainer, nr, calls, runNo, cel, sealed, task,
                   cancelled, now, crashed, closed, fn>>

\* refreshToken, os.WriteFile of the token, the write and the close.  The write
\* goes to offset 0 of whatever the file holds by now; on an error
\* refreshToken returns it, the file left as the failed call left it.
RefreshWrite(c) ==
    /\ rt[c].pc = "opened" /\ ~crashed
    /\ \E out \in WriteAndClose(tokenFile, rt[c].tok) :
         /\ tokenFile' = out.file
         /\ IF out.err
            THEN RefreshFailed(c, "write")
            ELSE /\ rt' = [rt EXCEPT ![c].pc = "written"]
                 /\ UNCHANGED <<run, ref>>
    /\ UNCHANGED <<launchSpec, image, hostContainer, nr, calls, runNo, cel, sealed, task,
                   cancelled, now, crashed, closed, fn>>

\* refreshToken, after the write: the token is parsed again, into a map of its
\* claims, and an error of this parse is returned with the file written; else
\* the claims are logged and the delay is computed from the time left until
\* exp and a random number.
RefreshReturn(c) ==
    /\ rt[c].pc = "written" /\ ~crashed
    /\ \E err \in ParseMapClaims(rt[c].tok) :
         IF err
         THEN RefreshFailed(c, "parse")
         ELSE \E d \in {NextRefresh[ParseUnverified(rt[c].tok).ExpiresAt - now][r] :
                           r \in Rands} :
                  RefreshSucceeded(c, d)
    /\ UNCHANGED <<launchSpec, image, hostContainer, nr, calls, runNo, cel, sealed, task,
                   cancelled, tokenFile, now, crashed, closed, fn>>

\* ------------------------------------------------------------ the refresher
\* select, case <-timer.C: RetryNotify calls refreshToken.
TimerFire(r) ==
    /\ ref[r].pc = "select" /\ ~crashed
    /\ ref' = [ref EXCEPT ![r] = [pc |-> "refreshing", timer |-> 0]]
    /\ rt' = [rt EXCEPT ![r] = [IdleRefresh EXCEPT !.pc = "attest"]]
    /\ UNCHANGED <<launchSpec, image, hostContainer, nr, calls, runNo, run, cel, sealed,
                   task, cancelled, tokenFile, now, crashed, closed, fn>>

\* select, case <-ctx.Done(): the timer is stopped and the goroutine returns.
CtxDone(r) ==
    /\ ref[r].pc = "select" /\ ~crashed
    /\ cancelled[r]
    /\ ref' = [ref EXCEPT ![r] = [pc |-> "stopped", timer |-> 0]]
    /\ UNCHANGED <<launchSpec, image, hostContainer, nr, calls, runNo, run, cel, sealed,
                   task, rt, cancelled, tokenFile, now, crashed, closed, fn>>

\* RetryNotify, after the backoff interval: refreshToken is called again.  The
\* retry policy carries no context and MaxElapsedTime = 0, so nothing but a
\* successful refresh ends the retrying.
BackoffRetry(r) ==
    /\ ref[r].pc = "backoff" /\ ~crashed
    /\ ref' = [ref EXCEPT ![r].pc = "refreshing"]
    /\ rt' = [rt EXCEPT ![r] = [IdleRefresh EXCEPT !.pc = "attest"]]
    /\ UNCHANGED <<launchSpec, image, hostContainer, nr, calls, runNo, run, cel, sealed,
                   task, cancelled, tokenFile, now, crashed, closed, fn>>

\* ------------------------------------------------------------------ the task
\* The runtime keeps one task per container: NewTask fails while the task of an
\* earlier Run is still there.
NewTask ==
    /\ run.pc = "newtask" /\ ~crashed
    /\ calls' = Append(calls, "NewTask")
    /\ \E ok \in {b \in BOOLEAN : b => ~TaskPresent} :
         IF ok
         THEN /\ task' = [NoTask EXCEPT !.state = "created"]
              /\ run' = [run EXCEPT !.pc = "wait", !.create = "ok",
                                    !.deferred = PushDefer(@, "task.Delete")]
         ELSE /\ task' = task
              /\ run' = [run EXCEPT !.pc = "unwind", !.create = "err",
                                    !.result = RetryableResult("newtask")]
    /\ UNCHANGED <<launchSpec, image, hostContainer, nr, runNo, cel, sealed, rt, ref,
                   cancelled, tokenFile, now, crashed, closed, fn>>

\* task.Wait: an error is logged and Run goes on, its exit channel nil.
TaskWait ==
    /\ run.pc = "wait" /\ ~crashed
    /\ calls' = Append(calls, "Wait")
    /\ \E ok \in BOOLEAN :
         run' = [run EXCEPT !.pc = "start", !.exitC = IF ok THEN "chan" ELSE "nil"]
    /\ UNCHANGED <<launchSpec, image, hostContainer, nr, runNo, cel, sealed, task, rt,
                   ref, cancelled, tokenFile, now, crashed, closed, fn>>

TaskStart ==
    /\ run.pc = "start" /\ ~crashed
    /\ calls' = Append(calls, "Start")
    /\ \E ok \in BOOLEAN :
         IF ok
         THEN /\ task' = [task EXCEPT !.state = "running"]
              /\ run' = [run EXCEPT !.pc = "recv", !.start = "ok"]
         ELSE /\ task' = task
              /\ run' = [run EXCEPT !.pc = "unwind", !.start = "err",
                                    !.result = RetryableResult("start")]
    /\ UNCHANGED <<launchSpec, image, hostContainer, nr, runNo, cel, sealed, rt, ref,
                   cancelled, tokenFile, now, crashed, closed, fn>>

\* The workload ends: the runtime has an exit status for the waiters.
TaskExit ==
    /\ task.state = "running" /\ ~crashed
    /\ \E st \in ExitStatuses : task' = [state |-> "exited", status |-> st]
    /\ UNCHANGED <<launchSpec, image, hostContainer, nr, calls, runNo, run, cel, sealed,
                   rt, ref, cancelled, tokenFile, now, crashed, closed, fn>>

\* status := <-exitStatusC, then the result of Run.  A nil channel never delivers.
RecvExit ==
    /\ run.pc = "recv" /\ ~crashed
    /\ run.exitC = "chan"
    /\ task.state = "exited"
    /\ run' = [run EXCEPT !.pc = "unwind", !.got = TRUE,
                          !.result = ExitResult(task.status)]
    /\ UNCHANGED <<launchSpec, image, hostContainer, nr, calls, runNo, cel, sealed, task,
                   rt, ref, cancelled, tokenFile, now, crashed, closed, fn>>

\* Run returns: the deferred calls run, the last deferred first.  The result
\* of the deferred task.Delete is discarded: a delete that fails (the task was
\* created and never stopped, or the call to the runtime fails) leaves the task
\* as it is, and Run returns all the same.
RunDeferred ==
    /\ run.pc = "unwind" /\ ~crashed
    /\ run' = [run EXCEPT !.deferred = Tail(@),
                          !.pc = IF Len(run.deferred) = 1 THEN "returned" ELSE "unwind"]
    /\ calls' = Append(calls, Head(run.deferred))
    /\ IF Head(run.deferred) = "cancel"
       THEN cancelled' = [cancelled EXCEPT ![runNo] = TRUE] /\ task' = task
       ELSE /\ cancelled' = cancelled
            /\ \E ok \in BOOLEAN :
                 task' = IF ok THEN [task EXCEPT !.state = "deleted"] ELSE task
    /\ UNCHANGED <<launchSpec, image, hostContainer, nr, runNo, cel, sealed, rt, ref,
                   tokenFile, now, crashed, closed, fn>>

\* Time passes.  The clock is read only inside refreshToken, so time that
\* passes while no refreshToken is in progress is taken when the next begins.
Tick ==
    /\ now < MaxTime /\ ~crashed
    /\ \E c \in Callers : rt[c].pc # "idle"
    /\ now' = now + 1
    /\ UNCHANGED <<launchSpec, image, hostContainer, nr, calls, runNo, run, cel, sealed,
                   task, rt, ref, cancelled, tokenFile, crashed, closed, fn>>

Foreground ==
    \/ NewRunner \/ Close \/ RunBegin \/ MeasureStep \/ SpecFails \/ FetchBegin
    \/ RefreshAttest(0) \/ RefreshOpen(0) \/ RefreshWrite(0) \/ RefreshReturn(0)
    \/ NewTask \/ TaskWait \/ TaskStart \/ RecvExit \/ RunDeferred

Refresher(r) ==
    \/ TimerFire(r) \/ CtxDone(r) \/ BackoffRetry(r)
    \/ RefreshAttest(r) \/ RefreshOpen(r) \/ RefreshWrite(r) \/ RefreshReturn(r)

Next ==
    \/ Foreground
    \/ \E r \in Refreshers : Refresher(r)
    \/ TaskExit
    \/ Tick

Spec == Init /\ [][Next]_vars

\* The Go scheduler runs every goroutine that can take a step.
FairSpec == Spec /\ WF_vars(Foreground) /\ \A r \in Refreshers : WF_vars(Refresher(r))

\* ------------------------------------- getNextRefreshFromExpiration alone
\* The function applied to a remaining lifetime and a draw of rand.Float64().
\* From the lifetime 5 * 2^47 ns on, 0.8 * L is 2^49 or more and a float64 near
\* it is a multiple of 1/8.
RoundingFree == BMulSmall(BShl(<<1>>, 47), 5)

\* Lifetimes of the size tokens have, those about RoundingFree, those from
\* 2^53 ns and 2^54 ns on, where float64(L) rounds L, and those up to the
\* largest time.Duration, 2^63 - 1 ns.
LargeLifetimes ==
    {Minute, Hour, BMulSmall(Hour, 24), BSub(RoundingFree, FromNat(MaxOffset \div 2)),
     BShl(<<1>>, MantissaBits), BShl(<<1>>, MantissaBits + 1),
     BSub(BShl(<<1>>, 63), FromNat(MaxOffset + 1))}

Lifetimes ==
    {DurationOf(n) : n \in 1..MaxL}
    \cup {[s |-> 1, n |-> BAdd(b, FromNat(k))] : b \in LargeLifetimes, k \in 0..MaxOffset}

InitPure ==
    /\ launchSpec \in {ls \in LaunchSpecs : ls.Cmd = <<>> /\ ls.Envs = <<>>}
    /\ image \in {img \in Images : img.Entrypoint # <<>>}
    /\ hostContainer = FALSE
    /\ Unstarted
    /\ fn \in [L : Lifetimes, r : Rands, d : {DurationOf(0)}, done : {FALSE}]

ApplyGetNext ==
    /\ ~fn.done
    /\ fn' = [fn EXCEPT !.d = getNextRefreshFromExpiration(fn.L, fn.r), !.done = TRUE]
    /\ UNCHANGED <<launchSpec, image, hostContainer, nr, calls, runNo, run, cel, sealed,
                   task, rt, ref, cancelled, tokenFile, now, crashed, closed>>

NextPure == ApplyGetNext

PureSpec == InitPure /\ [][NextPure]_vars

\* ------------------------------------------------------------- VerifyQuote
\* A mutated input differs from a quote of the TPM in at most this many places.
MaxMutations == 1

\* Byte strings are sequences of fields.  A signature is <<Alg, HashAlg, value>>
\* for RSA and <<Alg, HashAlg, R, S>> for ECDSA; attestation data is
\* <<magic, type, extraData, PCR selection, PCR digest>>.
SigAlgs == {"RSASSA", "RSAPSS", "ECDSA", "HMAC"}
HashAlgs == {"SHA1", "SHA256"}
KeyIds == {1, 2}
TrustedKeys ==
    {[type |-> "ecdsa", id |-> 1], [type |-> "ecdsa", id |-> 2],
     [type |-> "rsa", id |-> 1], [type |-> "ed25519", id |-> 1]}
ExtraDatas == {<<>>, <<7>>, <<8>>}
PcrIdx == {0, 1}
PcrValues == {<<>>, <<1>>, <<2>>, <<1, 2>>}
PcrMaps == UNION {[sel -> PcrValues] : sel \in SUBSET PcrIdx}
Pcrs == [hash : HashAlgs, pcrs : PcrMaps]
PCRSelections == [Hash : HashAlgs, PCRs : SUBSET PcrIdx]

\* hash.New(), Write, Sum: the digest, taken to be free of collisions.
Hash(alg, bytes) == [alg |-> alg, of |-> bytes]

\* tpm2 HashAlg.Hash(): the algorithms with a Go hash.
HashSupported(alg) == alg \in HashAlgs

NilSig == [nil |-> TRUE]

\* tpm2.DecodeSignature: reads the algorithm, then the fields of that
\* algorithm; what follows them in the buffer is not looked at.
DecodeSignature(raw) ==
    IF Len(raw) = 0 THEN [err |-> TRUE, Alg |-> "none", RSA |-> NilSig, ECC |-> NilSig]
    ELSE IF raw[1] \in {"RSASSA", "RSAPSS"}
        THEN IF Len(raw) < 3
             THEN [err |-> TRUE, Alg |-> raw[1], RSA |-> NilSig, ECC |-> NilSig]
             ELSE [err |-> FALSE, Alg |-> raw[1],
                   RSA |-> [HashAlg |-> raw[2], Signature |-> raw[3]], ECC |-> NilSig]
    ELSE IF raw[1] = "ECDSA"
        THEN IF Len(raw) < 4
             THEN [err |-> TRUE, Alg |-> raw[1], RSA |-> NilSig, ECC |-> NilSig]
             ELSE [err |-> FALSE, Alg |-> raw[1], RSA |-> NilSig,
                   ECC |-> [HashAlg |-> raw[2], R |-> raw[3], S |-> raw[4]]]
    ELSE [err |-> TRUE, Alg |-> raw[1], RSA |-> NilSig, ECC |-> NilSig]

\* ecdsa.Verify: (R, S) and (R, n - S) are both signatures of the digest.
EcdsaVerify(pub, digest, R, S) ==
    R = [key |-> pub.id, digest |-> digest] /\ S \in {"s", "n-s"}

\* rsa.VerifyPKCS1v15
RsaVerifyPKCS1v15(pub, digest, signature) ==
    signature = [key |-> pub.id, digest |-> digest]

verifyECDSAQuoteSignature(ecdsaPub, hash, quoted, sig) ==
    IF sig.Alg # "ECDSA" THEN "signature scheme is not supported"
    ELSE IF ~EcdsaVerify(ecdsaPub, Hash(hash, quoted), sig.ECC.R, sig.ECC.S)
        THEN "ECC signature verification failed"
    ELSE "nil"

verifyRSASSAQuoteSignature(rsaPub, hash, quoted, sig) ==
    IF sig.Alg # "RSASSA" THEN "signature scheme is not supported"
    ELSE IF ~RsaVerifyPKCS1v15(rsaPub, Hash(hash, quoted), sig.RSA.Signature)
        THEN "RSASSA signature verification failed"
    ELSE "nil"

NilInfo == [nil |-> TRUE]

\* tpm2.DecodeAttestationData: the magic value, the type and the extraData,
\* then the body of that type.
DecodeAttestationData(quote) ==
    IF Len(quote) < 5 \/ quote[1] # "TPM_GENERATED" \/ quote[2] \notin {"quote", "certify"}
    THEN [err |-> TRUE, Type |-> "none", ExtraData |-> <<>>, AttestedQuoteInfo |-> NilInfo]
    ELSE [err |-> FALSE, Type |-> quote[2], ExtraData |-> quote[3],
          AttestedQuoteInfo |->
              IF quote[2] = "quote"
              THEN [nil |-> FALSE, PCRSelection |-> quote[4], PCRDigest |-> quote[5]]
              ELSE NilInfo]

\* subtle.ConstantTimeCompare: 1 when the slices are equal.
ConstantTimeCompare(x, y) == IF x = y THEN 1 ELSE 0

SamePCRSelection(pcrs, sel) ==
    /\ pcrs.hash = sel.Hash
    /\ Cardinality(DOMAIN pcrs.pcrs) = Cardinality(sel.PCRs)
    /\ \A i \in sel.PCRs : i \in DOMAIN pcrs.pcrs

\* The values of the given PCRs, in the order of their indices, one after the
\* other.
RECURSIVE PcrConcat(_, _)
PcrConcat(m, idx) ==
    IF idx = {} THEN <<>>
    ELSE LET i == CHOOSE j \in idx : \A k \in idx : j <= k
         IN (IF i \in DOMAIN m THEN m[i] ELSE <<>>) \o PcrConcat(m, idx \ {i})

PCRDigest(pcrs, hash) == Hash(hash, PcrConcat(pcrs.pcrs, PcrIdx))

\* A wrong variant: the digest of the given PCRs is not compared.
validatePCRDigest_SelectionOnly(quoteInfo, pcrs, hash) ==
    IF ~SamePCRSelection(pcrs, quoteInfo.PCRSelection)
    THEN "given PCRs and Quote do not have the same PCR selection"
    ELSE "nil"

validatePCRDigest(quoteInfo, pcrs, hash) ==
    IF ~SamePCRSelection(pcrs, quoteInfo.PCRSelection)
    THEN "given PCRs and Quote do not have the same PCR selection"
    ELSE IF ConstantTimeCompare(quoteInfo.PCRDigest, PCRDigest(pcrs, hash)) = 0
        THEN "given PCRs digest not matching"
    ELSE "nil"

\* VerifyQuote after the signature check.
VerifyAttestation(q, hash, extraData) ==
    LET attestationData == DecodeAttestationData(q.Quote)
    IN  IF attestationData.err THEN "decoding attestation data failed"
        ELSE IF attestationData.Type # "quote" THEN "expected quote tag"
        ELSE IF attestationData.AttestedQuoteInfo.nil
            THEN "attestation data does not contain quote info"
        ELSE IF ConstantTimeCompare(attestationData.ExtraData, extraData) = 0
            THEN "quote extraData did not match expected extraData"
        ELSE validatePCRDigest(attestationData.AttestedQuoteInfo, q.Pcrs, hash)

\* VerifyQuote: "nil" for success, the error, or "panic" when the field of the
\* signature that the key's type selects is nil.
VerifyQuote(q, trustedPub, extraData) ==
    LET sig == DecodeSignature(q.RawSig)
    IN  IF sig.err THEN "signature decoding failed"
        ELSE IF trustedPub.type = "ecdsa"
            THEN IF sig.ECC = NilSig THEN "panic"
                 ELSE IF ~HashSupported(sig.ECC.HashAlg) THEN "hash algorithm not supported"
                 ELSE LET e == verifyECDSAQuoteSignature(trustedPub, sig.ECC.HashAlg,
                                                         q.Quote, sig)
                      IN IF e # "nil" THEN e
                         ELSE VerifyAttestation(q, sig.ECC.HashAlg, extraData)
        ELSE IF trustedPub.type = "rsa"
            THEN IF sig.RSA = NilSig THEN "panic"
                 ELSE IF ~HashSupported(sig.RSA.HashAlg) THEN "hash algorithm not supported"
                 ELSE LET e == verifyRSASSAQuoteSignature(trustedPub, sig.RSA.HashAlg,
                                                          q.Quote, sig)
                      IN IF e # "nil" THEN e
                         ELSE VerifyAttestation(q, sig.RSA.HashAlg, extraData)
        ELSE "only RSA and ECC public keys are currently supported"

\* What a TPM holding key signs: attestation data of the given type over the
\* PCRs and the extraData, with the signature of the key's scheme.
TpmAttestation(type, pcrs, extraData) ==
    <<"TPM_GENERATED", type, extraData,
      [Hash |-> pcrs.hash, PCRs |-> DOMAIN pcrs.pcrs], PCRDigest(pcrs, "SHA256")>>

TpmSign(key, quote) ==
    IF key.type = "ecdsa"
    THEN <<"ECDSA", "SHA256", [key |-> key.id, digest |-> Hash("SHA256", quote)], "s">>
    ELSE <<"RSASSA", "SHA256", [key |-> key.id, digest |-> Hash("SHA256", quote)]>>

TpmQuote(key, type, pcrs, extraData) ==
    LET quote == TpmAttestation(type, pcrs, extraData)
    IN [RawSig |-> TpmSign(key, quote), Quote |-> quote, Pcrs |-> pcrs]

SigningKeys == {k \in TrustedKeys : k.id = 1 /\ k.type \in {"ecdsa", "rsa"}}
QuotedPcrs ==
    {p \in Pcrs : p.hash = "SHA256" /\ DOMAIN p.pcrs = PcrIdx
                  /\ p.pcrs[0] \in {<<1>>, <<1, 2>>} /\ p.pcrs[1] \in {<<>>, <<2>>}}

\* A field of no meaning at position i of a signature.
Filler(i) == IF i = 3 THEN [key |-> 0, digest |-> Hash("SHA1", <<>>)] ELSE "x"

\* The byte strings that differ from a signature in one field, by one more
\* field at the end, or by the last field missing.
SigVariants(raw, quote) ==
    ((IF Len(raw) >= 1 THEN {[raw EXCEPT ![1] = a] : a \in SigAlgs} ELSE {})
     \cup (IF Len(raw) >= 2
           THEN {[raw EXCEPT ![2] = h] : h \in HashAlgs \cup {"NULL"}} ELSE {})
     \cup (IF Len(raw) >= 3
           THEN {[raw EXCEPT ![3] = [key |-> k, digest |-> Hash(h, quote)]] :
                     k \in KeyIds, h \in HashAlgs}
           ELSE {})
     \cup (IF Len(raw) >= 4 THEN {[raw EXCEPT ![4] = x] : x \in {"s", "n-s", "0"}} ELSE {})
     \cup {Append(raw, Filler(Len(raw) + 1))}
     \cup (IF Len(raw) >= 1 THEN {SubSeq(raw, 1, Len(raw) - 1)} ELSE {})) \ {raw}

\* The byte strings that differ from attestation data in one field, or by the
\* last field missing.
QuoteVariants(quote) ==
    ((IF Len(quote) >= 5
      THEN {SubSeq(quote, 1, 4)}
           \cup {[quote EXCEPT ![5] = PCRDigest(p, h)] : p \in QuotedPcrs, h \in HashAlgs}
      ELSE {})
     \cup (IF Len(quote) >= 4
           THEN {[quote EXCEPT ![1] = "bad"], [quote EXCEPT ![2] = "quote"],
                 [quote EXCEPT ![2] = "certify"]}
                \cup {[quote EXCEPT ![3] = e] : e \in ExtraDatas}
                \cup {[quote EXCEPT ![4] = sel] : sel \in PCRSelections}
           ELSE {}))
    \ {quote}

\* The call of VerifyQuote on record in fn: its arguments, its result, and how
\* many changes away from a quote of the TPM the arguments are.
VerifyCall(q, pub, extraData, muts) ==
    [q |-> q, pub |-> pub, extraData |-> extraData, muts |-> muts,
     out |-> VerifyQuote(q, pub, extraData)]

InitQuote ==
    /\ launchSpec \in {ls \in LaunchSpecs : ls.Cmd = <<>> /\ ls.Envs = <<>>}
    /\ image \in {img \in Images : img.Entrypoint # <<>>}
    /\ hostContainer = FALSE
    /\ Unstarted
    /\ \E key \in SigningKeys, type \in {"quote", "certify"}, pcrs \in QuotedPcrs,
          extraData \in ExtraDatas \ {<<>>} :
         fn = VerifyCall(TpmQuote(key, type, pcrs, extraData), key, extraData, 0)

QuoteFrame ==
    UNCHANGED <<launchSpec, image, hostContainer, nr, calls, runNo, run, cel, sealed,
                task, rt, ref, cancelled, tokenFile, now, crashed, closed>>

\* VerifyQuote is called again with another signature.
ChangeSig ==
    /\ fn.muts < MaxMutations
    /\ \E raw \in SigVariants(fn.q.RawSig, fn.q.Quote) :
         fn' = VerifyCall([fn.q EXCEPT !.RawSig = raw], fn.pub, fn.extraData, fn.muts + 1)
    /\ QuoteFrame

\* ... with other quote bytes
ChangeQuote ==
    /\ fn.muts < MaxMutations
    /\ \E quote \in QuoteVariants(fn.q.Quote) :
         fn' = VerifyCall([fn.q EXCEPT !.Quote = quote], fn.pub, fn.extraData, fn.muts + 1)
    /\ QuoteFrame

\* ... with other PCRs
ChangePcrs ==
    /\ fn.muts < MaxMutations
    /\ \E pcrs \in Pcrs \ {fn.q.Pcrs} :
         fn' = VerifyCall([fn.q EXCEPT !.Pcrs = pcrs], fn.pub, fn.extraData, fn.muts + 1)
    /\ QuoteFrame

\* ... with other expected extraData
ChangeExtraData ==
    /\ fn.muts < MaxMutations
    /\ \E extraData \in ExtraDatas \ {fn.extraData} :
         fn' = VerifyCall(fn.q, fn.pub, extraData, fn.muts + 1)
    /\ QuoteFrame

\* ... with another trusted key
ChangeKey ==
    /\ fn.muts < MaxMutations
    /\ \E pub \in TrustedKeys \ {fn.pub} :
         fn' = VerifyCall(fn.q, pub, fn.extraData, fn.muts + 1)
    /\ QuoteFrame

NextQuote == ChangeSig \/ ChangeQuote \/ ChangePcrs \/ ChangeExtraData \/ ChangeKey

QuoteSpec == InitQuote /\ [][NextQuote]_vars

\* ------------------------------------------------------- the retry policy
\* Durations are whole nanoseconds, written as limbs.
\* float64(d) for a duration d
Float64FromDuration(d) == Round64(1, d, 0)

\* time.Duration(x) for x >= 0: the conversion truncates
DurationFromFloat64(x) == BNorm(IF x.e >= 0 THEN BShl(x.m, x.e) ELSE BShr(x.m, -x.e))

\* A wrong variant: the policy as backoff.NewExponentialBackOff returns it but
\* for the intervals, its MaxElapsedTime of 15 minutes left in place.
defaultRetryPolicy_ElapsedTimeKept ==
    [InitialInterval |-> Minute, RandomizationFactor |-> Dyadic(1, 1), Multiplier |-> 2,
     MaxInterval |-> Hour, MaxElapsedTime |-> BMulSmall(Minute, 15)]

defaultRetryPolicy ==
    [InitialInterval |-> Minute, RandomizationFactor |-> Dyadic(1, 1), Multiplier |-> 2,
     MaxInterval |-> Hour, MaxElapsedTime |-> <<>>]

\* backoff: getRandomValueFromInterval
getRandomValueFromInterval(randomizationFactor, random, currentInterval) ==
    LET delta       == FMul(randomizationFactor, Float64FromDuration(currentInterval))
        minInterval == FSub(Float64FromDuration(currentInterval), delta)
        maxInterval == FAdd(Float64FromDuration(currentInterval), delta)
    IN DurationFromFloat64(
           FAdd(minInterval,
                FMul(random, FAdd(FSub(maxInterval, minInterval), Float64FromInt(1)))))

\* backoff: incrementCurrentInterval, for the multiplier 2
incrementCurrentInterval(b, currentInterval) ==
    IF BCmp(BMulSmall(currentInterval, b.Multiplier), b.MaxInterval) >= 0
    THEN b.MaxInterval
    ELSE DurationFromFloat64(FMul(Float64FromDuration(currentInterval),
                                  Float64FromInt(b.Multiplier)))

\* backoff: NextBackOff after elapsed time: the wait, the interval for the
\* next call, and whether the policy says Stop.
NextBackOff(b, currentInterval, elapsed, random) ==
    LET next == getRandomValueFromInterval(b.RandomizationFactor, random, currentInterval)
    IN [wait |-> next,
        currentInterval |-> incrementCurrentInterval(b, currentInterval),
        stop |-> b.MaxElapsedTime # <<>> /\ BCmp(BAdd(elapsed, next), b.MaxElapsedTime) > 0]

\* The refresher goroutine of one Run on its own, with the waits of its retry
\* policy: fn holds where it is, the refreshToken calls (attempt) and failures
\* (n) of the RetryNotify in progress, the policy's current interval, the wait
\* it chose last, the time waited so far when the policy limits it, the
\* attempt of it that last changed the token file and what that attempt left
\* there (the file holds the old token until then), the duration refreshToken
\* returned last and the duration the timer was last reset to.
MaxRetries == 8

\* What refreshToken returns, and what it has done to the token file by then:
\* an error before os.WriteFile (file unchanged), an error of os.WriteFile
\* after its open (file truncated or partly written), an error after
\* os.WriteFile (the second parse: file written), or the delay for a token's
\* lifetime (file written).
RefreshResults ==
    {[err |-> TRUE, d |-> DurationOf(0), file |-> f] : f \in {"unchanged", "torn", "whole"}}
    \cup {[err |-> FALSE, d |-> getNextRefreshFromExpiration(DurationOf(L), r),
            file |-> "whole"] :
              L \in {10, MaxL}, r \in {Dyadic(0, 0), RandMax}}

InitBackoff ==
    /\ launchSpec \in {ls \in LaunchSpecs : ls.Cmd = <<>> /\ ls.Envs = <<>>}
    /\ image \in {img \in Images : img.Entrypoint # <<>>}
    /\ hostContainer = FALSE
    /\ Unstarted
    /\ \E first \in {res \in RefreshResults : ~res.err} :
         fn = [pc |-> "select", attempt |-> 0, n |-> 0,
               currentInterval |-> defaultRetryPolicy.InitialInterval, wait |-> <<>>,
               elapsed |-> <<>>, wroteAt |-> 0, file |-> "old", duration |-> first.d,
               timer |-> first.d]

\* case <-timer.C: duration is declared, zero; RetryNotify resets the policy
\* and calls refreshToken.
RetryBegin ==
    /\ fn.pc = "select"
    /\ fn' = [fn EXCEPT !.pc = "refreshing", !.attempt = 0, !.n = 0,
                        !.currentInterval = defaultRetryPolicy.InitialInterval,
                        !.wait = <<>>, !.elapsed = <<>>, !.wroteAt = 0, !.file = "old",
                        !.duration = DurationOf(0)]
    /\ QuoteFrame

\* refreshToken returns nil: it has written the token file, RetryNotify
\* returns nil and the timer is reset to the duration.
RetrySucceeds ==
    /\ fn.pc = "refreshing"
    /\ \E res \in {res \in RefreshResults : ~res.err} :
         fn' = [fn EXCEPT !.pc = "select", !.attempt = @ + 1, !.wroteAt = fn.attempt + 1,
                          !.file = res.file, !.duration = res.d, !.timer = res.d]
    /\ QuoteFrame

\* refreshToken returns an error and the duration 0, with the file as the
\* failed call left it: RetryNotify asks the policy for the next wait, and gives up when the policy
\* says Stop.
RetryFails ==
    /\ fn.pc = "refreshing"
    /\ fn.n < MaxRetries
    /\ \E random \in Rands, res \in {res \in RefreshResults : res.err} :
         LET b  == defaultRetryPolicy
             nb == NextBackOff(b, fn.currentInterval, fn.elapsed, random)
             g  == [fn EXCEPT !.duration = res.d]
             f  == IF res.file = "unchanged" THEN g
                   ELSE [g EXCEPT !.wroteAt = fn.attempt + 1, !.file = res.file]
         IN fn' = IF nb.stop
                  THEN [f EXCEPT !.pc = "stopped", !.attempt = @ + 1]
                  ELSE [f EXCEPT !.pc = "backoff", !.attempt = @ + 1, !.n = @ + 1,
                                 !.wait = nb.wait, !.currentInterval = nb.currentInterval,
                                 !.elapsed = IF b.MaxElapsedTime = <<>> THEN <<>>
                                             ELSE BAdd(fn.elapsed, nb.wait)]
    /\ QuoteFrame

\* The wait is over: RetryNotify calls refreshToken again.
RetryAgain ==
    /\ fn.pc = "backoff"
    /\ fn' = [fn EXCEPT !.pc = "refreshing"]
    /\ QuoteFrame

NextBackoff == RetryBegin \/ RetrySucceeds \/ RetryFails \/ RetryAgain

BackoffSpec == InitBackoff /\ [][NextBackoff]_vars

\* ------------------------------------------------------------------ claims
\* The position of an event type in the order of measureContainerClaims.
EventRank(type) ==
    CASE type = "ImageRef" -> 1
      [] type = "ImageDigest" -> 2
      [] type = "RestartPolicy" -> 3
      [] type = "ImageID" -> 4
      [] type = "Arg" -> 5
      [] type = "EnvVar" -> 6
      [] type = "OverrideEnv" -> 7
      [] type = "OverrideArg" -> 8
      [] type = "LaunchSeparator" -> 9
      [] OTHER -> 0

\* The contents of the events of one type in a log, in the order of the log.
ContentsOf(log, type) ==
    LET sel == SelectSeq(log, LAMBDA e : e.type = type)
    IN [i \in 1..Len(sel) |-> sel[i].content]

\* C1: when Run has reached the start of the task, the events this Run measured
\* are, in this order: one ImageRef, one ImageDigest, one RestartPolicy, one
\* ImageID exactly when the image config was readable, one Arg per argument of
\* the container process, one EnvVar per entry of its environment, one
\* OverrideEnv per operator env override, one OverrideArg per element of the
\* operator's Cmd, and one LaunchSeparator with empty content, and nothing else.
C1_MeasuredSequence ==
    run.start # "none" =>
        /\ \A i \in 1..Len(cel) : EventRank(cel[i].type) > 0
        /\ \A i \in 1..(Len(cel) - 1) : EventRank(cel[i].type) <= EventRank(cel[i + 1].type)
        /\ ContentsOf(cel, "ImageRef") = <<launchSpec.ImageRef>>
        /\ ContentsOf(cel, "ImageDigest") = <<image.Digest>>
        /\ ContentsOf(cel, "RestartPolicy") = <<launchSpec.RestartPolicy>>
        /\ ContentsOf(cel, "ImageID")
             = (IF run.in.cfgOK THEN <<image.ConfigDigest>> ELSE <<>>)
        /\ ContentsOf(cel, "Arg") = ContainerSpecOf(image, launchSpec).Args
        /\ ContentsOf(cel, "EnvVar") = ContainerSpecOf(image, launchSpec).Env
        /\ ContentsOf(cel, "OverrideEnv")
             = [i \in 1..Len(launchSpec.Envs) |->
                  launchSpec.Envs[i].Name \o <<"=">> \o launchSpec.Envs[i].Value]
        /\ ContentsOf(cel, "OverrideArg") = launchSpec.Cmd
        /\ ContentsOf(cel, "LaunchSeparator") = << <<>> >>

\* A started task of a Run with Cmd and Env overrides and a readable image config.
C1_Witness ==
    /\ run.start = "ok"
    /\ launchSpec.Cmd # <<>> /\ launchSpec.Envs # <<>>
    /\ run.in.cfgOK

\* C2: a task is created or started, and the refresher goroutine exists, only
\* when the measurement of this Run ended with the LaunchSeparator and the first
\* refresh succeeded, the token file written; and when a MeasureEvent or the
\* first refresh failed (an expired token included), Run is returning an error,
\* with no task created or started and no refresher goroutine.
C2_TaskAfterMeasureAndToken ==
    /\ (run.pc # "idle" /\ (Contains(calls, "NewTask") \/ Contains(calls, "Start")
                            \/ task.state # "none" \/ ref[runNo].pc # "none"))
         => /\ cel # <<>>
            /\ cel[Len(cel)].type = "LaunchSeparator"
            /\ run.first = "ok"
            /\ tokenFile.exists
    /\ (run.mfail \/ run.first \notin {"none", "ok"})
         => /\ run.pc \in {"unwind", "returned"}
            /\ run.result.kind = "error"
            /\ ~Contains(calls, "NewTask") /\ ~Contains(calls, "Start")
            /\ task.state = "none"
            /\ ref[runNo].pc = "none"

\* Run has returned after the verifier's token was found expired by the first refresh.
C2_Witness ==
    /\ run.pc = "returned"
    /\ run.first = "expired"
    /\ run.result = ErrorResult("fetch")

\* C3: the write of a refresh that goes on to return success leaves in the token
\* file the whole of the bytes Attest returned to that refresh, their exp
\* strictly later than the time of the write, and the file still holds them
\* when refreshToken returns.
C3_FileHoldsFreshToken ==
    [][\A c \in Callers :
         /\ (rt[c].pc = "opened" /\ rt'[c].pc = "written") =>
                /\ tokenFile' = WholeFile(rt[c].tok)
                /\ ParseUnverified(rt[c].tok).ExpiresAt > now
         /\ rt[c].pc = "written" => tokenFile' = WholeFile(rt[c].tok)]_vars

\* a \div k and a % k for 0 < k < LimbBase
RECURSIVE DivSmall(_, _)
DivSmall(a, k) ==
    IF a = <<>> THEN [q |-> <<>>, r |-> 0]
    ELSE LET hi  == DivSmall(Tail(a), k)
             cur == hi.r * LimbBase + a[1]
         IN [q |-> <<cur \div k>> \o hi.q, r |-> cur % k]

\* The whole nanoseconds of float64 rounding allowed for a lifetime L: one for
\* each RoundingFree nanoseconds of it, none below RoundingFree.
RoundingAllowance(L) == BNorm(DivSmall(BShr(L, 47), 5).q)

\* C4 (as the spec states it): for L > 0 the delay d satisfies
\* 0.7 L <= d <= 0.9 L and d < L.
C4_DelayWithinRealBounds ==
    (fn.done /\ fn.L.s = 1 /\ fn.L.n # <<>>) =>
        /\ fn.d.s = 1
        /\ BCmp(BMulSmall(fn.L.n, 7), BMulSmall(fn.d.n, 10)) <= 0
        /\ BCmp(BMulSmall(fn.d.n, 10), BMulSmall(fn.L.n, 9)) <= 0
        /\ BCmp(fn.d.n, fn.L.n) < 0

\* C4 (amended): for every L > 0 the delay d, a float64 truncated to a whole
\* duration, satisfies d < L and floor(0.7 L) - t <= d <= 0.9 L + t, where
\* t = floor(L / (5 * 2^47 ns)) is 0 for every lifetime below 5 * 2^47 ns.
C4_DelayWithinTruncatedBounds ==
    (fn.done /\ fn.L.s = 1 /\ fn.L.n # <<>>) =>
        LET t == RoundingAllowance(fn.L.n)
        IN /\ fn.d.s = 1
           /\ BCmp(BMulSmall(fn.L.n, 7),
                   BMulSmall(BAdd(BAdd(fn.d.n, t), <<1>>), 10)) < 0
           /\ BCmp(BMulSmall(fn.d.n, 10),
                   BAdd(BMulSmall(fn.L.n, 9), BMulSmall(t, 10))) <= 0
           /\ BCmp(fn.d.n, fn.L.n) < 0

\* The function applied to a lifetime of an hour and the largest draw.
C4_Witness ==
    /\ fn.done /\ fn.L.n = Hour /\ fn.r = RandMax
    /\ BCmp(BMulSmall(fn.d.n, 10), BMulSmall(Hour, 8)) > 0

\* C5: whenever the context of a refresher is canceled, the refresher
\* eventually stops (or the process has ended).
C5_RefresherStops ==
    \A r \in Refreshers :
        cancelled[r] ~> (ref[r].pc \in {"none", "stopped"} \/ crashed)

\* The result Run returns given how task creation, start and exit went.
TaskOutcome ==
    IF run.create = "err" THEN RetryableResult("newtask")
    ELSE IF run.start = "err" THEN RetryableResult("start")
    ELSE IF task.status.err THEN ErrorResult("status")
    ELSE IF task.status.code = 0 THEN [kind |-> "nil", code |-> 0, cause |-> "exit"]
    ELSE [kind |-> "workload", code |-> task.status.code, cause |-> "exit"]

\* C6: after a successful first refresh Run ends only once task creation failed,
\* the start failed or the exit status arrived, and its result is the one these
\* determine, whatever the background refreshes did.
C6_BackgroundFailureHarmless ==
    (run.first = "ok" /\ run.pc \in {"unwind", "returned"}) =>
        /\ run.create = "err" \/ run.start = "err" \/ run.got
        /\ run.result = TaskOutcome

\* Run is returning the exit of its task while its refresher, the context not
\* yet canceled, is backing off after a failed refresh.
C6_Witness ==
    /\ run.pc = "unwind" /\ run.got
    /\ ~cancelled[runNo]
    /\ ref[runNo].pc = "backoff"

\* C7: once the exit status of the started task arrived without error, the
\* result of Run is nil for exit code 0 and WorkloadError with that very exit
\* code otherwise.
C7_ExitCodeReported ==
    (run.got /\ ~task.status.err) =>
        /\ task.status.code = 0 => run.result.kind = "nil"
        /\ task.status.code # 0 =>
             (run.result.kind = "workload" /\ run.result.code = task.status.code)

\* Run has returned after its task exited with code 42.
C7_Witness ==
    /\ run.pc = "returned" /\ run.got
    /\ task.status = [code |-> 42, err |-> FALSE]
    /\ run.result.kind = "workload"

\* C8: when Run has returned after creating the task, the task is deleted and
\* the context of the Run is canceled, the delete issued before the cancel
\* (calls holds the calls of Run until Close is called).
C8_TaskDeletedThenCanceled ==
    (run.pc = "returned" /\ run.create = "ok") =>
        /\ task.state = "deleted"
        /\ cancelled[runNo]
        /\ ~closed => \E i, j \in 1..Len(calls) :
                         i < j /\ calls[i] = "task.Delete" /\ calls[j] = "cancel"

\* C9: when NewRunner got as far as the policy and launchPolicy.Verify rejects
\* the overrides under the policy of the labels it read, NewRunner has returned
\* the violation and has not called NewContainer.
C9_ViolationCreatesNothing ==
    (/\ nr.status # "pending" /\ run.pc = "idle" /\ ~closed
     /\ Contains(calls, "LoadContainer")
     /\ ~GetLaunchPolicy(LabelsRead(image, calls)).err
     /\ Verify(GetLaunchPolicy(LabelsRead(image, calls)), launchSpec))
        => /\ nr.status = "failed"
           /\ nr.err = "policy_violation"
           /\ ~Contains(calls, "NewContainer")

\* NewRunner has returned a violation of the policy of labels it could read.
C9_Witness ==
    /\ nr.err = "policy_violation"
    /\ Contains(calls, "getImageLabels")
    /\ launchSpec.Envs # <<>>

\* C10: when NewRunner has failed after NewContainer created the container (the
\* spec of the container was asked for), no container with the reserved id is left.
C10_FailedConstructionLeavesNothing ==
    (nr.status = "failed" /\ run.pc = "idle" /\ ~closed /\ Contains(calls, "Spec"))
        => ~hostContainer

\* C11: when NewRunner is called while a container with the reserved id exists
\* and gets as far as LoadContainer, that container is deleted right after
\* LoadContainer, before the labels are read and before NewContainer, and
\* NewRunner then succeeds or fails as it could on a host without such a
\* container.
C11_OldContainerReplaced ==
    [][(nr.status = "pending" /\ nr'.status # "pending" /\ hostContainer
        /\ Contains(calls', "LoadContainer")) =>
          /\ calls'[1] = "LoadContainer"
          /\ calls'[2] = "Delete"
          /\ \E in \in NewRunnerInputs :
                LET fresh == NewRunnerOutcome(launchSpec, image, FALSE, in)
                IN /\ fresh.status = nr'.status
                   /\ fresh.err = nr'.err
                   /\ fresh.container = hostContainer'
                   /\ fresh.calls = <<"LoadContainer">> \o Tail(Tail(calls'))]_vars

\* C12: a failed image pull, hostname lookup or container create makes NewRunner
\* return a RetryableError, and a failed task create, wait or start makes Run
\* return a RetryableError.
C12_TransientFailuresRetryable ==
    /\ nr.err \in {"pull", "hostname", "create"} => nr.retryable
    /\ (run.pc \in {"recv", "unwind", "returned"}
        /\ (run.create = "err" \/ run.exitC = "nil" \/ run.start = "err"))
          => run.result.kind = "retryable"

\* C13: every Close called after Run returned leaves no container with the
\* reserved id and the process running, and a Close that follows another
\* changes nothing but the record of its own delete.
C13_CloseIdempotent ==
    [][(run.pc = "returned" /\ closed' /\ calls' # calls) =>
            /\ ~hostContainer' /\ ~crashed'
            /\ closed => /\ hostContainer' = hostContainer
                         /\ UNCHANGED <<nr, run, runNo, task, cel, sealed, tokenFile,
                                        cancelled>>
      ]_vars

\* The algorithm of the signature is the one VerifyQuote supports for the type
\* of the trusted key.
AlgMatchesKey(raw, pub) ==
    \/ pub.type = "ecdsa" /\ DecodeSignature(raw).Alg = "ECDSA"
    \/ pub.type = "rsa" /\ DecodeSignature(raw).Alg = "RSASSA"

\* C14: VerifyQuote returns an error, and neither succeeds nor crashes, when the
\* algorithm of the signature does not match the type of the trusted key.
C14_MismatchedSignatureRejected ==
    ~AlgMatchesKey(fn.q.RawSig, fn.pub) => fn.out \notin {"nil", "panic"}

\* The signature decodes to one of the trusted key's scheme that verifies over
\* the quote bytes.
SignatureVerifies(q, pub) ==
    LET sig == DecodeSignature(q.RawSig)
    IN /\ ~sig.err
       /\ \/ /\ pub.type = "ecdsa" /\ sig.Alg = "ECDSA" /\ HashSupported(sig.ECC.HashAlg)
             /\ EcdsaVerify(pub, Hash(sig.ECC.HashAlg, q.Quote), sig.ECC.R, sig.ECC.S)
          \/ /\ pub.type = "rsa" /\ sig.Alg = "RSASSA" /\ HashSupported(sig.RSA.HashAlg)
             /\ RsaVerifyPKCS1v15(pub, Hash(sig.RSA.HashAlg, q.Quote), sig.RSA.Signature)

\* The hash algorithm of a decoded signature.
SigHashAlg(raw) ==
    LET sig == DecodeSignature(raw)
    IN IF sig.Alg = "ECDSA" THEN sig.ECC.HashAlg ELSE sig.RSA.HashAlg

\* Two byte strings decode to the same signature, up to the choice between S
\* and n - S of ECDSA.
SameSignature(raw1, raw2) ==
    LET s1 == DecodeSignature(raw1)
        s2 == DecodeSignature(raw2)
    IN /\ ~s1.err /\ ~s2.err /\ s1.Alg = s2.Alg /\ s1.RSA = s2.RSA
       /\ (s1.Alg = "ECDSA" =>
             /\ s1.ECC.HashAlg = s2.ECC.HashAlg /\ s1.ECC.R = s2.ECC.R
             /\ s1.ECC.S \in {"s", "n-s"} /\ s2.ECC.S \in {"s", "n-s"})

\* VerifyQuote succeeded only if every check of the contract holds.
AcceptedOnlyIfChecked ==
    fn.out = "nil" =>
        LET ad == DecodeAttestationData(fn.q.Quote)
        IN /\ SignatureVerifies(fn.q, fn.pub)
           /\ ~ad.err /\ ad.Type = "quote" /\ ~ad.AttestedQuoteInfo.nil
           /\ ad.ExtraData = fn.extraData
           /\ SamePCRSelection(fn.q.Pcrs, ad.AttestedQuoteInfo.PCRSelection)
           /\ PCRDigest(fn.q.Pcrs, SigHashAlg(fn.q.RawSig)) = ad.AttestedQuoteInfo.PCRDigest
           /\ VerifyQuote(fn.q, fn.pub, fn.extraData) = "nil"

\* C15 as stated: VerifyQuote succeeds only if every check holds, and after a
\* success a call with other quote bytes, another signature, other PCRs or
\* other extraData does not succeed.
C15_AnyChangeRejected ==
    [](AcceptedOnlyIfChecked)
    /\ [][(fn.out = "nil"
           /\ (fn'.q.Quote # fn.q.Quote \/ fn'.q.RawSig # fn.q.RawSig
               \/ fn'.q.Pcrs # fn.q.Pcrs \/ fn'.extraData # fn.extraData))
            => fn'.out # "nil"]_vars

\* C15: VerifyQuote succeeds only if every check holds.  After a success, a
\* call with other quote bytes or other extraData does not succeed; one with
\* another signature succeeds only if the bytes decode to the same signature
\* (more bytes after it, or the other S of ECDSA); one with other PCRs succeeds
\* only if they have the same bank, the same indices and the same values one
\* after the other.
C15_AcceptedOnlyIfChecked ==
    [](AcceptedOnlyIfChecked)
    /\ [][(fn.out = "nil" /\ fn'.out = "nil") =>
            /\ fn'.q.Quote = fn.q.Quote
            /\ fn'.extraData = fn.extraData
            /\ SameSignature(fn.q.RawSig, fn'.q.RawSig)
            /\ fn'.q.Pcrs.hash = fn.q.Pcrs.hash
            /\ DOMAIN fn'.q.Pcrs.pcrs = DOMAIN fn.q.Pcrs.pcrs
            /\ PcrConcat(fn'.q.Pcrs.pcrs, PcrIdx) = PcrConcat(fn.q.Pcrs.pcrs, PcrIdx)]_vars

\* A quote of the TPM with the values of its PCRs changed was rejected for its
\* digest.
C15_Witness ==
    fn.muts = 1 /\ fn.out = "given PCRs digest not matching"

\* C16: at most one refreshToken is in progress, whoever called it (Run, or the
\* refresher goroutine of any Run); and a refresher whose timer is armed has no
\* refreshToken in progress.
C16_OneRefreshAtATime ==
    /\ Cardinality({c \in Callers : rt[c].pc # "idle"}) <= 1
    /\ \A r \in Refreshers : ref[r].pc = "select" => rt[r].pc = "idle"

\* C17: whenever task.Start has been called in a Run, the task.Wait of that Run
\* returned an exit channel; and a Run whose task has exited is not left
\* waiting at the receive on a channel that never delivers.
C17_StartOnlyAfterWait ==
    /\ Contains(calls, "Start") => run.exitC = "chan"
    /\ (run.pc = "recv" /\ task.state = "exited") => run.exitC = "chan"

\* C18: when NewRunner could not read the image labels, it has failed with
\* that error and has not called NewContainer.
C18_LabelErrorReturned ==
    Contains(calls, "getImageLabels failed") =>
        /\ nr.status = "failed" /\ nr.err = "labels"
        /\ ~Contains(calls, "NewContainer")

\* C19: no event is measured once a LaunchSeparator has been measured, in this
\* Run or in an earlier Run on the runner; and when the task has been started,
\* the last event measured is the LaunchSeparator.
C19_ReadOnlyAfterSeparator ==
    /\ sealed => cel = <<>>
    /\ \A i \in 1..Len(cel) : cel[i].type = "LaunchSeparator" => i = Len(cel)
    /\ Contains(calls, "Start") =>
         (cel # <<>> /\ cel[Len(cel)].type = "LaunchSeparator")

\* The activities that are at an operation of the attestation agent on the
\* TPM: Run in measureContainerClaims (caller 0, MeasureEvent), and every
\* caller of refreshToken that is at Attest.
AtTpmOperation ==
    {c \in Callers : rt[c].pc = "attest"}
        \cup (IF run.pc = "measure" THEN {0} ELSE {})

\* C20: at most one activity is at an operation of the attestation agent on
\* the TPM.
C20_TpmSingleThreaded ==
    Cardinality(AtTpmOperation) <= 1

\* C22: whatever bytes the verifier returns, a refresh does not take the process
\* down, and the token file never holds a token that does not parse or that
\* carries no exp.
C22_RefreshNeverCrashes ==
    /\ ~crashed
    /\ tokenFile.exists =>
         (~ParseUnverified(tokenFile.tok).err /\ ParseUnverified(tokenFile.tok).hasExpiresAt)

\* min(60 * 2^(n-1), 3600) seconds
ClippedInterval(n) ==
    LET i == BMulSmall(Minute, 2 ^ (n - 1))
    IN IF BCmp(i, Hour) > 0 THEN Hour ELSE i

\* min(d, 3600 seconds)
ClippedToHour(d) == IF BCmp(d, Hour) > 0 THEN Hour ELSE d

\* After k failures and a success the token file holds the token written by
\* attempt k + 1 and the refresher waits on the timer, reset to the duration
\* that attempt returned; and the retrying has not stopped.
RecoversAfterFailures ==
    /\ fn.pc # "stopped"
    /\ (fn.pc = "select" /\ fn.attempt > 0) =>
         /\ fn.attempt = fn.n + 1
         /\ fn.wroteAt = fn.attempt /\ fn.file = "whole"
         /\ fn.timer = fn.duration

\* C21 as stated: recovery as above, and the wait before the n-th retry lies
\* between 60 * 2^(n-1) * 0.5 and 60 * 2^(n-1) * 1.5 seconds, each clipped to
\* 3600 seconds (to the nanosecond above).
C21_WaitClippedToHour ==
    /\ RecoversAfterFailures
    /\ fn.pc = "backoff" =>
         LET i == BMulSmall(Minute, 2 ^ (fn.n - 1))
         IN /\ BCmp(fn.wait, ClippedToHour(BShr(i, 1))) >= 0
            /\ BCmp(fn.wait, BAdd(ClippedToHour(BMulSmall(BShr(i, 1), 3)), Nanosecond)) <= 0

\* C21: recovery as above, and the wait before the n-th retry lies between
\* 0.5 * I and 1.5 * I (to the nanosecond above) for I = min(60 * 2^(n-1), 3600)
\* seconds.
C21_WaitAroundClippedInterval ==
    /\ RecoversAfterFailures
    /\ fn.pc = "backoff" =>
         LET i == ClippedInterval(fn.n)
         IN /\ BCmp(fn.wait, BShr(i, 1)) >= 0
            /\ BCmp(fn.wait, BAdd(BMulSmall(BShr(i, 1), 3), Nanosecond)) <= 0

\* The refresher recovered on the attempt after its seventh failure, whose
\* wait was longer than an hour.
C21_Witness ==
    /\ fn.pc = "select" /\ fn.n = 7 /\ fn.wroteAt = 8 /\ fn.file = "whole"
    /\ BCmp(fn.wait, Hour) > 0

====
